---------------------------- MODULE Spec2Model ----------------------------
(***************************************************************************)
(* A model of src/server.py: the Flask application that serves GET /,      *)
(* GET /health and POST /mcp, with its two lazily created process-wide     *)
(* handles (_snowflake_conn, _bedrock_client).                             *)
(*                                                                         *)
(* Every request runs on a worker of its own.  A worker's steps are cut at *)
(* the reads and writes of the two globals and at the calls to the two     *)
(* collaborators (the data store and the inference service), whose         *)
(* behaviour is chosen nondeterministically.                               *)
(*                                                                         *)
(* Strings that the program builds are sequences of tokens (TLA+ strings): *)
(* "" is << >> and concatenation is \o.  JSON values carry their kind.     *)
(***************************************************************************)
EXTENDS Integers, Sequences, FiniteSets, TLC

VARIABLES
    _snowflake_conn,    \* the global of line 28: 0 is None, k > 0 the k-th connection made
    _bedrock_client,    \* the global of line 29: 0 is None, k > 0 the k-th client made
    created,            \* how many handles of each kind were successfully created so far
    th                  \* each worker's position, request, locals and reply

vars == <<_snowflake_conn, _bedrock_client, created, th>>

-----------------------------------------------------------------------------
(* Bounds *)

\* The number of rows the HIVE_MIND table may hold (the query returns at most
\* min(limit, table size) of them).
MaxTableRows == 4

\* The workers. Spec runs requests one at a time on the first; SpecConc interleaves both.
Threads == {"t1", "t2"}
SeqThreads == {"t1"}

-----------------------------------------------------------------------------
(* JSON values *)

JNull == [kind |-> "null"]
JStr(s) == [kind |-> "string", str |-> s]
JNum(n) == [kind |-> "number", num |-> n]
JArr(s) == [kind |-> "array", arr |-> s]
JObj(f) == [kind |-> "object", obj |-> f]
EmptyObj == JObj(<< >>)

Restrict(f, S) == [k \in S |-> f[k]]

\* dict.get(k, default), for d a dict
Get(d, k, default) == IF k \in DOMAIN d.obj THEN d.obj[k] ELSE default

\* hasattr(v, "get"): of the JSON values only a dict has the method
HasGet(v) == v.kind = "object"

\* str(v) as an f-string renders it
Format(v) ==
    CASE v.kind = "string" -> v.str
      [] v.kind = "null" -> <<"None">>
      [] v.kind = "number" -> <<ToString(v.num)>>
      [] OTHER -> <<"<", v.kind, ">">>

-----------------------------------------------------------------------------
(* Program constants *)

SOVEREIGN_MIND_PROMPT == <<"# SOVEREIGN MIND - BEDROCK AI INSTANCE ... 5. Token efficiency - brief confirmations\n">>

BEDROCK_MODEL == "anthropic.claude-3-sonnet-20240229-v1:0"
AWS_REGION == "us-east-1"

\* the limit that both tool branches pass to query_hive_mind
HiveLimit == 3

\* the code of the error envelope
NotFoundCode == -32601

TOOLS ==
    << [name |-> "bedrock_chat",
        description |-> "Chat with Claude via AWS Bedrock (Sovereign Mind)",
        inputSchema |-> [type |-> "object",
                         properties |-> [message |-> [type |-> "string"]],
                         required |-> <<"message">>]],
       [name |-> "bedrock_analyze",
        description |-> "Analyze content with Bedrock Claude",
        inputSchema |-> [type |-> "object",
                         properties |-> [content |-> [type |-> "string"], task |-> [type |-> "string"]],
                         required |-> <<"content", "task">>]] >>


-----------------------------------------------------------------------------
(* The pure parts of the handlers *)

\* Python's result of an expression: a value, or a raised exception with its text
Value(v) == [exc |-> FALSE, val |-> v]
Raise(text) == [exc |-> TRUE, text |-> text]

\* line 127: data.get("method", ""), data.get("params", {}), data.get("id", 1)
Method(data) == Get(data, "method", JStr(<< >>))
Params(data) == Get(data, "params", EmptyObj)
ReqId_NullDefault(data) == Get(data, "id", JNull)

ReqId(data) == Get(data, "id", JNum(1))

\* line 139: params.get("name", ""), params.get("arguments", {})
ToolName_DefaultChat(params) == Get(params, "name", JStr(<<"bedrock_chat">>))

ToolName(params) == Get(params, "name", JStr(<< >>))
Arguments(params) == Get(params, "arguments", EmptyObj)

\* type(v).__name__, as the text of an AttributeError or TypeError gives it
PyType(v) ==
    CASE v.kind = "null" -> "NoneType"
      [] v.kind = "string" -> "str"
      [] v.kind = "number" -> "int"
      [] v.kind = "array" -> "list"
      [] OTHER -> "dict"

\* args.get(k, default) of lines 144 and 150: AttributeError when args has no get
ArgGet(args, k, default) ==
    IF HasGet(args) THEN Value(Get(args, k, default))
    ELSE Raise(<<"'", PyType(args), "' object has no attribute 'get'">>)

ChatMessage_WrongKey(args) == ArgGet(args, "content", JStr(<< >>))

\* line 144: the user message of bedrock_chat
ChatMessage(args) == ArgGet(args, "message", JStr(<< >>))

AnalyzeMessage_EmptyTask(args) ==
    LET task == ArgGet(args, "task", JStr(<< >>))
        content == ArgGet(args, "content", JStr(<< >>))
    IN  IF task.exc THEN task
        ELSE IF content.exc THEN content
        ELSE Value(JStr(Format(task.val) \o <<"\n\nContent:\n">> \o Format(content.val)))

\* line 150: the user message of bedrock_analyze
AnalyzeMessage(args) ==
    LET task == ArgGet(args, "task", JStr(<<"Analyze this">>))
        content == ArgGet(args, "content", JStr(<< >>))
    IN  IF task.exc THEN task
        ELSE IF content.exc THEN content
        ELSE Value(JStr(Format(task.val) \o <<"\n\nContent:\n">> \o Format(content.val)))

\* lines 141, 147: the tools that have a branch
IsChat(tool) == tool = JStr(<<"bedrock_chat">>)
IsAnalyze(tool) == tool = JStr(<<"bedrock_analyze">>)

UserMessage(tool, args) == IF IsChat(tool) THEN ChatMessage(args) ELSE AnalyzeMessage(args)

\* lines 143, 149: the system prompt
SystemPrompt(hive) == SOVEREIGN_MIND_PROMPT \o <<"\n\nHive Mind Context:\n">> \o hive

RenderRow_CategoryFirst(r) == r[2] \o <<" (">> \o r[1] \o <<"): ">> \o r[3]

\* line 83: one row, and the rows joined by newlines
RenderRow(r) == r[1] \o <<" (">> \o r[2] \o <<"): ">> \o r[3]

RECURSIVE JoinRows(_)
JoinRows(rows) ==
    IF rows = << >> THEN << >>
    ELSE IF Len(rows) = 1 THEN RenderRow(rows[1])
    ELSE RenderRow(rows[1]) \o <<"\n">> \o JoinRows(Tail(rows))

\* lines 80-85: what query_hive_mind returns for an outcome of the query
HiveText(outcome) == IF outcome.exc THEN << >> ELSE JoinRows(outcome.val)

\* line 100: json.loads of the response body
JsonLoads(wire) ==
    IF wire.wellformed THEN Value(wire.value)
    ELSE Raise(<<"Expecting value: line 1 column 1 (char 0)">>)

\* line 101: result.get('content', [{}])[0].get('text', '')
ExtractText(result) ==
    IF ~HasGet(result) THEN Raise(<<"'", PyType(result), "' object has no attribute 'get'">>)
    ELSE LET content == Get(result, "content", JArr(<<EmptyObj>>))
         IN  IF content.kind # "array"
                 THEN Raise(<<"'", PyType(content), "' object is not subscriptable">>)
             ELSE IF content.arr = << >> THEN Raise(<<"list index out of range">>)
             ELSE IF ~HasGet(content.arr[1])
                 THEN Raise(<<"'", PyType(content.arr[1]), "' object has no attribute 'get'">>)
             ELSE Value(Get(content.arr[1], "text", JStr(<< >>)))

ErrorText_NoPrefix(text) == JStr(text)

\* line 103: f"Error: {e}"
ErrorText(text) == JStr(<<"Error: ">> \o text)

ClientUnavailable_Short == JStr(<<"client not available">>)

\* line 91
ClientUnavailable == JStr(<<"Bedrock client not available">>)

\* lines 92-103: what call_bedrock returns for an outcome of invoke_model
Completion(outcome) ==
    IF outcome.exc THEN ErrorText(outcome.text)
    ELSE LET result == JsonLoads(outcome.val)
         IN  IF result.exc THEN ErrorText(result.text)
             ELSE LET text == ExtractText(result.val)
                  IN  IF text.exc THEN ErrorText(text.text) ELSE text.val

\* json.dumps of a string: quoted, its control characters escaped
EscapeToken(tok) ==
    CASE tok = "\n" -> "\\n"
      [] tok = "\n\nContent:\n" -> "\\n\\nContent:\\n"
      [] tok = "\"" -> "\\\""
      [] OTHER -> tok

JsonDumps(v) ==
    CASE v.kind = "string" -> <<"\"">> \o [i \in 1..Len(v.str) |-> EscapeToken(v.str[i])] \o <<"\"">>
      [] v.kind = "null" -> <<"null">>
      [] v.kind = "number" -> <<ToString(v.num)>>
      [] OTHER -> <<"<", v.kind, ">">>

\* lines 145, 152: json.dumps({"response": response})
Payload(response) == <<"{\"response\": ">> \o JsonDumps(response) \o <<"}">>

\* the three envelopes of lines 136, 145/152 and 154
ListEnvelope_FirstToolOnly(req_id) ==
    [jsonrpc |-> "2.0", id |-> req_id, result |-> [tools |-> <<TOOLS[1]>>]]

ListEnvelope(req_id) == [jsonrpc |-> "2.0", id |-> req_id, result |-> [tools |-> TOOLS]]

ResultEnvelope(req_id, response) ==
    [jsonrpc |-> "2.0", id |-> req_id,
     result |-> [content |-> << [type |-> "text", text |-> Payload(response)] >>]]

NotFound_WithResult(req_id) ==
    [jsonrpc |-> "2.0", id |-> req_id, result |-> [content |-> << >>],
     error |-> [code |-> NotFoundCode, message |-> "Not found"]]

NotFound(req_id) ==
    [jsonrpc |-> "2.0", id |-> req_id, error |-> [code |-> NotFoundCode, message |-> "Not found"]]

\* lines 109-115 and 120: the documents of GET / and GET /health
IndexDocument_AlwaysConnected(conn) ==
    [service |-> "bedrock-mcp", version |-> "1.0.0", status |-> "healthy",
     instance |-> "BEDROCK", platform |-> "AWS", role |-> "Enterprise AI",
     model |-> BEDROCK_MODEL, sovereign_mind |-> TRUE,
     hive_mind_connected |-> TRUE, region |-> AWS_REGION]

IndexDocument(conn) ==
    [service |-> "bedrock-mcp", version |-> "1.0.0", status |-> "healthy",
     instance |-> "BEDROCK", platform |-> "AWS", role |-> "Enterprise AI",
     model |-> BEDROCK_MODEL, sovereign_mind |-> TRUE,
     hive_mind_connected |-> (conn # 0), region |-> AWS_REGION]

HealthDocument == [status |-> "healthy", sovereign_mind |-> TRUE]

-----------------------------------------------------------------------------
(* The inputs and the collaborators' behaviours *)

BoundedSeq(S, n) == UNION {[1..k -> S] : k \in 0..n}

Min(a, b) == IF a < b THEN a ELSE b

ArgFull ==
    [message |-> JStr(<<"hello">>), content |-> JStr(<<"doc">>), task |-> JStr(<<"Summarize">>)]

\* params.arguments: a mapping holding any of the three arguments, or no mapping at all
ArgumentValues == {JObj(Restrict(ArgFull, S)) : S \in SUBSET DOMAIN ArgFull} \cup {JNull}

NameValues == {JStr(<<"bedrock_chat">>), JStr(<<"bedrock_analyze">>), JStr(<<"unknown_tool">>)}

ParamsValues ==
    {JObj(Restrict([name |-> n, arguments |-> a], S)) :
        n \in NameValues, a \in ArgumentValues, S \in SUBSET {"name", "arguments"}}

MethodValues == {JStr(<<"tools/list">>), JStr(<<"tools/call">>), JStr(<<"ping">>)}

IdValues == {JNum(1), JNum(7), JNull}

\* the parsed bodies of POST /mcp: every key may be absent
Requests ==
    {JObj(Restrict([method |-> m, params |-> p, id |-> i], S)) :
        m \in MethodValues, p \in ParamsValues, i \in IdValues,
        S \in SUBSET {"method", "params", "id"}}

\* the bodies of the interleaved runs: one of each reply path, with and without an id
ConcRequests ==
    {JObj(Restrict([method |-> m, params |-> p, id |-> JNum(7)], S)) :
        m \in {JStr(<<"tools/list">>), JStr(<<"tools/call">>)},
        p \in {JObj([name |-> JStr(<<"bedrock_chat">>), arguments |-> JObj([message |-> JStr(<<"hello">>)])])},
        S \in {{"method", "params", "id"}, {"method", "params"}, {"params", "id"}}}

RowPool ==
    { <<<<"CLAUDE">>, <<"DECISION">>, <<"Approved the budget">>>>,
      <<<<"GROK">>, <<"NOTE">>, <<"Deployed v2">>>> }

\* cursor.execute + fetchall of lines 82-83: an exception, or at most `limit` rows
QueryOutcomes(limit) ==
    {Raise(<<"query failed">>)}
        \cup {Value(rows) : rows \in BoundedSeq(RowPool, Min(limit, MaxTableRows))}

Blocks(texts) == JObj([content |-> JArr([i \in 1..Len(texts) |-> JObj([type |-> JStr(<<"text">>), text |-> texts[i]])])])

\* what the decoded body of invoke_model may be; one of them echoes the user message
ResultValues(msg) ==
    { EmptyObj, JArr(<< >>), JObj([content |-> JNull]), JObj([content |-> JArr(<< >>)]),
      JObj([content |-> JArr(<<JStr(<<"text">>)>>)]),
      JObj([content |-> JArr(<<JObj([type |-> JStr(<<"text">>)])>>)]),
      Blocks(<<JStr(<<"Done, Your Grace.">>)>>), Blocks(<<msg>>),
      Blocks(<<JStr(<<"First">>), JStr(<<"Second">>)>>) }

\* invoke_model + body.read of lines 99-100: an exception, or a body that may not be JSON
InvokeOutcomes(msg) ==
    {Raise(<<"ThrottlingException">>)}
        \cup {Value([wellformed |-> FALSE])}
        \cup {Value([wellformed |-> TRUE, value |-> v]) : v \in ResultValues(msg)}

\* the collaborators of the interleaved runs: a failure and a success of each
ConcQueryOutcomes ==
    {Raise(<<"query failed">>)} \cup {Value(<<r>>) : r \in RowPool}

ConcInvokeOutcomes(msg) ==
    {Raise(<<"ThrottlingException">>), Value([wellformed |-> TRUE, value |-> Blocks(<<msg>>)])}

\* the inputs and the collaborators of a run: conc is TRUE in the interleaved runs
RequestsOf(conc) == IF conc THEN ConcRequests ELSE Requests

QueryOutcomesOf(conc, limit) == IF conc THEN ConcQueryOutcomes ELSE QueryOutcomes(limit)

InvokeOutcomesOf(conc, msg) == IF conc THEN ConcInvokeOutcomes(msg) ELSE InvokeOutcomes(msg)

-----------------------------------------------------------------------------
(* The workers *)

NoResponse == [none |-> TRUE]

\* no collaborator call was made yet
NoOutcome == [none |-> TRUE]

Idle ==
    [pc |-> "idle", route |-> "", data |-> JNull, req_id |-> JNull, tool |-> JNull,
     args |-> JNull, conn |-> 0, hive |-> << >>, system |-> << >>, msg |-> JNull,
     client |-> 0, response |-> JNull, out |-> NoResponse,
     calls |-> << >>,               \* the collaborator calls this request made, in order
     query_outcome |-> NoOutcome,   \* what the data store answered to this request's query
     invoke_outcome |-> NoOutcome]  \* what the inference service answered to this request

Init ==
    /\ _snowflake_conn = 0
    /\ _bedrock_client = 0
    /\ created = [sf |-> 0, br |-> 0]
    /\ th = [t \in Threads |-> Idle]

Globals == <<_snowflake_conn, _bedrock_client, created>>

\* Flask hands a request to the view function of its route
Receive(t, conc) ==
    /\ th[t].pc = "idle"
    /\ \/ \E data \in RequestsOf(conc) : th' = [th EXCEPT ![t] = [Idle EXCEPT !.pc = "start", !.route = "/mcp", !.data = data]]
       \/ th' = [th EXCEPT ![t] = [Idle EXCEPT !.pc = "start", !.route = "/"]]
       \/ th' = [th EXCEPT ![t] = [Idle EXCEPT !.pc = "start", !.route = "/health"]]
    /\ UNCHANGED Globals

\* health(), lines 118-120
Health(t) ==
    /\ th[t].pc = "start" /\ th[t].route = "/health"
    /\ th' = [th EXCEPT ![t].pc = "done", ![t].out = HealthDocument]
    /\ UNCHANGED Globals

\* index() up to its call of get_snowflake_connection, line 108
IndexStart(t) ==
    /\ th[t].pc = "start" /\ th[t].route = "/"
    /\ th' = [th EXCEPT ![t].pc = "sf_check"]
    /\ UNCHANGED Globals

McpDispatch_Strict(t) ==
    /\ th[t].pc = "start" /\ th[t].route = "/mcp"
    /\ LET data == th[t].data
           method == Method(data)
           params == Params(data)
           req_id == ReqId(data)
           tool == ToolName(params)
           args == Arguments(params)
           required == IF IsChat(tool) THEN {"message"} ELSE {"content", "task"}
       IN  IF method = JStr(<<"tools/list">>)
               THEN th' = [th EXCEPT ![t].pc = "done", ![t].req_id = req_id,
                                     ![t].out = ListEnvelope(req_id)]
           ELSE IF /\ method = JStr(<<"tools/call">>) /\ (IsChat(tool) \/ IsAnalyze(tool))
                   /\ HasGet(args) /\ required \subseteq DOMAIN args.obj
               THEN th' = [th EXCEPT ![t].pc = "sf_check", ![t].req_id = req_id,
                                     ![t].tool = tool, ![t].args = args]
           ELSE th' = [th EXCEPT ![t].pc = "done", ![t].req_id = req_id,
                                 ![t].out = NotFound(req_id)]
    /\ UNCHANGED Globals

\* mcp_endpoint, lines 126-141, 147 and 154: up to the reply of tools/list, the
\* not-found reply, or the call of query_hive_mind
McpDispatch(t) ==
    /\ th[t].pc = "start" /\ th[t].route = "/mcp"
    /\ LET data == th[t].data
           method == Method(data)
           params == Params(data)
           req_id == ReqId(data)
           tool == ToolName(params)
           args == Arguments(params)
       IN  IF method = JStr(<<"tools/list">>)
               THEN th' = [th EXCEPT ![t].pc = "done", ![t].req_id = req_id,
                                     ![t].out = ListEnvelope(req_id)]
           ELSE IF method = JStr(<<"tools/call">>) /\ (IsChat(tool) \/ IsAnalyze(tool))
               THEN th' = [th EXCEPT ![t].pc = "sf_check", ![t].req_id = req_id,
                                     ![t].tool = tool, ![t].args = args]
           ELSE th' = [th EXCEPT ![t].pc = "done", ![t].req_id = req_id,
                                 ![t].out = NotFound(req_id)]
    /\ UNCHANGED Globals

SfCheck_AlwaysConnect(t) ==
    /\ th[t].pc = "sf_check"
    /\ th' = [th EXCEPT ![t].pc = "sf_connect"]
    /\ UNCHANGED Globals

\* get_snowflake_connection, line 65: the test of the global
SfCheck(t) ==
    /\ th[t].pc = "sf_check"
    /\ th' = [th EXCEPT ![t].pc = IF _snowflake_conn = 0 THEN "sf_connect" ELSE "sf_return"]
    /\ UNCHANGED Globals

\* lines 66-73: connect() returns a new connection, which is stored, or raises, which is logged
SfConnect(t) ==
    /\ th[t].pc = "sf_connect"
    /\ th' = [th EXCEPT ![t].pc = "sf_return", ![t].calls = Append(@, "connect")]
    /\ \/ /\ _snowflake_conn' = created.sf + 1
          /\ created' = [created EXCEPT !.sf = @ + 1]
       \/ UNCHANGED <<_snowflake_conn, created>>
    /\ UNCHANGED _bedrock_client

\* line 74: the caller gets the global as it is now
SfReturn(t) ==
    /\ th[t].pc = "sf_return"
    /\ th' = [th EXCEPT ![t].pc = "sf_returned", ![t].conn = _snowflake_conn]
    /\ UNCHANGED Globals

\* index(), lines 109-115
IndexReply(t) ==
    /\ th[t].pc = "sf_returned" /\ th[t].route = "/"
    /\ th' = [th EXCEPT ![t].pc = "done", ![t].out = IndexDocument(th[t].conn)]
    /\ UNCHANGED Globals

\* query_hive_mind, line 79: no connection, no query
HiveGuard_SkipQuery(t) ==
    /\ th[t].pc = "sf_returned" /\ th[t].route = "/mcp"
    /\ th' = [th EXCEPT ![t].pc = "assemble", ![t].hive = << >>]
    /\ UNCHANGED Globals

HiveGuard(t) ==
    /\ th[t].pc = "sf_returned" /\ th[t].route = "/mcp"
    /\ IF th[t].conn = 0
           THEN th' = [th EXCEPT ![t].pc = "assemble", ![t].hive = << >>]
           ELSE th' = [th EXCEPT ![t].pc = "query"]
    /\ UNCHANGED Globals

Query_Carried(t, conc) ==
    /\ th[t].pc = "query"
    /\ \E o \in QueryOutcomesOf(conc, HiveLimit) :
           LET earlier == {u \in Threads \ {t} : th[u].query_outcome # NoOutcome}
           IN  th' = [th EXCEPT ![t].pc = "assemble",
                                ![t].hive = IF earlier = {} THEN HiveText(o)
                                            ELSE th[CHOOSE u \in earlier : TRUE].hive,
                                ![t].calls = Append(@, "query"), ![t].query_outcome = o]
    /\ UNCHANGED Globals

Query_Retry(t, conc) ==
    /\ th[t].pc = "query"
    /\ \E o, again \in QueryOutcomesOf(conc, HiveLimit) :
           IF o.exc
               THEN th' = [th EXCEPT ![t].pc = "assemble", ![t].hive = HiveText(again),
                                     ![t].calls = @ \o <<"query", "query">>,
                                     ![t].query_outcome = again]
               ELSE th' = [th EXCEPT ![t].pc = "assemble", ![t].hive = HiveText(o),
                                     ![t].calls = Append(@, "query"), ![t].query_outcome = o]
    /\ UNCHANGED Globals

\* query_hive_mind, lines 80-85: the query and its rendering
Query(t, conc) ==
    /\ th[t].pc = "query"
    /\ \E o \in QueryOutcomesOf(conc, HiveLimit) :
           th' = [th EXCEPT ![t].pc = "assemble", ![t].hive = HiveText(o),
                            ![t].calls = Append(@, "query"), ![t].query_outcome = o]
    /\ UNCHANGED Globals

\* mcp_endpoint, lines 143-144 and 149-151: the system prompt, then the user message,
\* whose args.get raises past the view function when args is no mapping
Assemble(t) ==
    /\ th[t].pc = "assemble"
    /\ LET m == UserMessage(th[t].tool, th[t].args)
       IN  IF m.exc
               THEN th' = [th EXCEPT ![t].pc = "raised", ![t].system = SystemPrompt(th[t].hive)]
               ELSE th' = [th EXCEPT ![t].pc = "br_check", ![t].system = SystemPrompt(th[t].hive),
                                     ![t].msg = m.val]
    /\ UNCHANGED Globals

BrCheck_AlwaysCreate(t) ==
    /\ th[t].pc = "br_check"
    /\ th' = [th EXCEPT ![t].pc = "br_create"]
    /\ UNCHANGED Globals

\* get_bedrock_client, line 53: the test of the global
BrCheck(t) ==
    /\ th[t].pc = "br_check"
    /\ th' = [th EXCEPT ![t].pc = IF _bedrock_client = 0 THEN "br_create" ELSE "br_return"]
    /\ UNCHANGED Globals

\* lines 54-59: boto3.client returns a new client, which is stored, or raises, which is logged
BrCreate(t) ==
    /\ th[t].pc = "br_create"
    /\ th' = [th EXCEPT ![t].pc = "br_return", ![t].calls = Append(@, "create_client")]
    /\ \/ /\ _bedrock_client' = created.br + 1
          /\ created' = [created EXCEPT !.br = @ + 1]
       \/ UNCHANGED <<_bedrock_client, created>>
    /\ UNCHANGED _snowflake_conn

\* line 60: the caller gets the global as it is now
BrReturn(t) ==
    /\ th[t].pc = "br_return"
    /\ th' = [th EXCEPT ![t].pc = "br_returned", ![t].client = _bedrock_client]
    /\ UNCHANGED Globals

\* call_bedrock, lines 90-91: no client, no submission
ClientGuard(t) ==
    /\ th[t].pc = "br_returned"
    /\ IF th[t].client = 0
           THEN th' = [th EXCEPT ![t].pc = "respond", ![t].response = ClientUnavailable]
           ELSE th' = [th EXCEPT ![t].pc = "invoke"]
    /\ UNCHANGED Globals

\* call_bedrock, lines 92-103: the submission and the decoding of its answer
Invoke(t, conc) ==
    /\ th[t].pc = "invoke"
    /\ \E o \in InvokeOutcomesOf(conc, th[t].msg) :
           th' = [th EXCEPT ![t].pc = "respond", ![t].response = Completion(o),
                            ![t].calls = Append(@, "invoke"), ![t].invoke_outcome = o]
    /\ UNCHANGED Globals

\* mcp_endpoint, lines 145 and 152: the success envelope
Respond(t) ==
    /\ th[t].pc = "respond"
    /\ th' = [th EXCEPT ![t].pc = "done", ![t].out = ResultEnvelope(th[t].req_id, th[t].response)]
    /\ UNCHANGED Globals

\* the reply (or the escaped exception) leaves the view function; the worker is free again
Finish(t) ==
    /\ th[t].pc \in {"done", "raised"}
    /\ th' = [th EXCEPT ![t] = Idle]
    /\ UNCHANGED Globals

Step(t, conc) ==
    \/ Receive(t, conc)
    \/ Health(t)
    \/ IndexStart(t)
    \/ McpDispatch(t)
    \/ SfCheck(t)
    \/ SfConnect(t)
    \/ SfReturn(t)
    \/ IndexReply(t)
    \/ HiveGuard(t)
    \/ Query(t, conc)
    \/ Assemble(t)
    \/ BrCheck(t)
    \/ BrCreate(t)
    \/ BrReturn(t)
    \/ ClientGuard(t)
    \/ Invoke(t, conc)
    \/ Respond(t)
    \/ Finish(t)

\* requests served one at a time
Next == \E t \in SeqThreads : Step(t, FALSE)

Spec == Init /\ [][Next]_vars

\* requests served on two workers whose steps interleave
NextConc == \E t \in Threads : Step(t, TRUE)

SpecConc == Init /\ [][NextConc]_vars

-----------------------------------------------------------------------------
(* What the claims speak of *)

\* worker t is inside mcp_endpoint
Handling(t) == th[t].route = "/mcp" /\ th[t].pc # "idle"

\* the request's own fields, read off the body as it was received
GivenMethodIs(t, m) ==
    "method" \in DOMAIN th[t].data.obj /\ th[t].data.obj["method"] = JStr(<<m>>)

GivenParams(t) ==
    IF "params" \in DOMAIN th[t].data.obj THEN th[t].data.obj["params"] ELSE EmptyObj

GivenNameIs(t, n) ==
    "name" \in DOMAIN GivenParams(t).obj /\ GivenParams(t).obj["name"] = JStr(<<n>>)

HasId(t) == "id" \in DOMAIN th[t].data.obj

ExpectedId(t) == IF HasId(t) THEN th[t].data.obj["id"] ELSE JNum(1)

NotFoundEnvelope(id) ==
    [jsonrpc |-> "2.0", id |-> id, error |-> [code |-> -32601, message |-> "Not found"]]

IsResultEnvelope(e) == DOMAIN e = {"jsonrpc", "id", "result"}
IsErrorEnvelope(e) == DOMAIN e = {"jsonrpc", "id", "error"}

UnknownMethod(t) ==
    Handling(t) /\ ~GivenMethodIs(t, "tools/list") /\ ~GivenMethodIs(t, "tools/call")

UnknownTool(t) ==
    /\ Handling(t) /\ GivenMethodIs(t, "tools/call")
    /\ ~GivenNameIs(t, "bedrock_chat") /\ ~GivenNameIs(t, "bedrock_analyze")

ListCall(t) == Handling(t) /\ GivenMethodIs(t, "tools/list")

ChatCall(t) ==
    Handling(t) /\ GivenMethodIs(t, "tools/call") /\ GivenNameIs(t, "bedrock_chat")

AnalyzeCall(t) ==
    Handling(t) /\ GivenMethodIs(t, "tools/call") /\ GivenNameIs(t, "bedrock_analyze")

\* a step of worker t leaves both handle slots as they are
StepKeepsSlots(t) ==
    th'[t] # th[t] => UNCHANGED <<_snowflake_conn, _bedrock_client>>

-----------------------------------------------------------------------------
(* The claims *)

\* C1: whatever the request envelope (params.arguments may hold any JSON value) and
\* whatever the collaborators do, mcp_endpoint returns a Response Envelope: no
\* exception escapes the dispatcher, and a handler that has ended has replied.
C1_NoExceptionEscapes ==
    \A t \in Threads :
        Handling(t) =>
            /\ th[t].pc # "raised"
            /\ th[t].pc = "done" => (IsResultEnvelope(th[t].out) \/ IsErrorEnvelope(th[t].out))

\* C2: a request whose method is neither tools/list nor tools/call (or is absent) is
\* answered at once with exactly {jsonrpc: "2.0", id: <request id>, error: {code:
\* -32601, message: "Not found"}}, and the reply has no result field.
C2_UnknownMethodNotFound ==
    \A t \in Threads :
        UnknownMethod(t) =>
            /\ th[t].pc \in {"start", "done"}
            /\ th[t].pc = "done" =>
                   /\ th[t].out = NotFoundEnvelope(ExpectedId(t))
                   /\ "result" \notin DOMAIN th[t].out

C2_Witness ==
    \E t \in Threads :
        /\ UnknownMethod(t) /\ th[t].pc = "done"
        /\ "method" \notin DOMAIN th[t].data.obj
        /\ HasId(t) /\ th[t].out.id = JNum(7) /\ th[t].out.error.code = -32601

\* C3: a tools/call whose params.name is neither bedrock_chat nor bedrock_analyze (or
\* is absent) is answered with the same -32601 "Not found" envelope carrying the
\* request id; the request contacts neither collaborator, and none of its steps
\* changes a handle slot.
C3_UnknownToolNotFound ==
    /\ [](\A t \in Threads :
            UnknownTool(t) =>
                /\ th[t].pc \in {"start", "done"}
                /\ th[t].calls = << >>
                /\ th[t].pc = "done" => th[t].out = NotFoundEnvelope(ExpectedId(t)))
    /\ [][\A t \in Threads : UnknownTool(t) => StepKeepsSlots(t)]_vars

C3_Witness ==
    \E t \in Threads :
        /\ UnknownTool(t) /\ th[t].pc = "done"
        /\ "name" \notin DOMAIN GivenParams(t).obj
        /\ "arguments" \in DOMAIN GivenParams(t).obj
        /\ IsErrorEnvelope(th[t].out) /\ th[t].calls = << >>
        /\ _snowflake_conn # 0 /\ _bedrock_client # 0

\* C4: every tools/list request, whatever its id and params and whatever the state
\* of the process, is answered with result.tools being the two-entry registry
\* (bedrock_chat requiring message, bedrock_analyze requiring content and task), the
\* same on every call; it makes no collaborator call and none of its steps changes a
\* handle slot.
C4_ListIsStatic ==
    /\ [](\A t \in Threads :
            ListCall(t) =>
                /\ th[t].pc \in {"start", "done"}
                /\ th[t].calls = << >>
                /\ th[t].pc = "done" =>
                       /\ IsResultEnvelope(th[t].out)
                       /\ DOMAIN th[t].out.result = {"tools"}
                       /\ Len(th[t].out.result.tools) = 2
                       /\ th[t].out.result.tools[1].name = "bedrock_chat"
                       /\ th[t].out.result.tools[1].inputSchema.required = <<"message">>
                       /\ th[t].out.result.tools[2].name = "bedrock_analyze"
                       /\ th[t].out.result.tools[2].inputSchema.required = <<"content", "task">>
                       /\ th[t].out.result.tools = TOOLS)
    /\ [][\A t \in Threads : ListCall(t) => StepKeepsSlots(t)]_vars

C4_Witness ==
    \E t \in Threads :
        /\ ListCall(t) /\ th[t].pc = "done"
        /\ "params" \in DOMAIN th[t].data.obj /\ ~HasId(t)
        /\ Len(th[t].out.result.tools) = 2
        /\ _snowflake_conn # 0 /\ _bedrock_client = 0

\* C5: on every reply path of mcp_endpoint (the list, a tool's result, not found) the
\* reply's id is the request's id when the body has an id key, and 1 when it has
\* none; with two requests interleaved, each reply carries its own request's id.
C5_IdEchoed ==
    \A t \in Threads :
        (Handling(t) /\ th[t].pc = "done") =>
            /\ "id" \in DOMAIN th[t].out
            /\ th[t].out.id = (IF HasId(t) THEN th[t].data.obj["id"] ELSE JNum(1))

C5_Witness ==
    \E t, u \in Threads :
        /\ Handling(t) /\ th[t].pc = "done" /\ HasId(t)
        /\ IsErrorEnvelope(th[t].out) /\ th[t].out.id = JNum(7)
        /\ Handling(u) /\ th[u].pc = "done" /\ ~HasId(u)
        /\ IsResultEnvelope(th[u].out) /\ th[u].calls # << >> /\ th[u].out.id = JNum(1)

\* the request's arguments, read off the body as it was received
GivenArgs(t) ==
    IF "arguments" \in DOMAIN GivenParams(t).obj THEN GivenParams(t).obj["arguments"] ELSE EmptyObj

GivenArgOr(t, k, default) ==
    IF k \in DOMAIN GivenArgs(t).obj THEN GivenArgs(t).obj[k].str ELSE default

\* get_snowflake_connection has returned to worker t
AfterConnection(t) == th[t].pc \notin {"start", "sf_check", "sf_connect", "sf_return"}

\* worker t has built the user message and handed it to call_bedrock
MessageSent(t) ==
    /\ Handling(t) /\ th[t].tool # JNull
    /\ th[t].pc \in {"br_check", "br_create", "br_return", "br_returned", "invoke", "respond", "done"}

\* call_bedrock has returned to worker t
AfterCallBedrock(t) == Handling(t) /\ th[t].tool # JNull /\ th[t].pc \in {"respond", "done"}

Submitted(t) == Handling(t) /\ th[t].invoke_outcome # NoOutcome

SuccessEnvelope(id, text) ==
    [jsonrpc |-> "2.0", id |-> id, result |-> [content |-> << [type |-> "text", text |-> text] >>]]

\* C6: when the data-store connection cannot be created, a bedrock_chat call still
\* returns a success envelope, never an error or an exception; query_hive_mind
\* returned "" without issuing a query, and the system prompt handed to the inference
\* adapter is the static prompt followed by an empty "Hive Mind Context" section.
C6_ChatSurvivesConnectFailure ==
    \A t \in Threads :
        (ChatCall(t) /\ AfterConnection(t) /\ th[t].conn = 0) =>
            /\ th[t].pc # "raised"
            /\ "query" \notin {th[t].calls[i] : i \in DOMAIN th[t].calls}
            /\ th[t].hive = << >>
            /\ MessageSent(t) =>
                   th[t].system = SOVEREIGN_MIND_PROMPT \o <<"\n\nHive Mind Context:\n">>
            /\ th[t].pc = "done" => IsResultEnvelope(th[t].out)

\* C7: when invoke_model raises, or the body it returns cannot be decoded, call_bedrock
\* returns "Error: " followed by the exception text instead of raising, and the
\* tools/call replies with a success envelope whose text is the serialized
\* {response: "Error: ..."}; a request that contacted a collaborator never ends in
\* an error envelope.
C7_InferenceFailureInBand ==
    \A t \in Threads :
        /\ Submitted(t) =>
               /\ th[t].pc \in {"respond", "done"}
               /\ th[t].invoke_outcome.exc =>
                      /\ th[t].response = JStr(<<"Error: ">> \o th[t].invoke_outcome.text)
                      /\ th[t].pc = "done" =>
                             th[t].out = SuccessEnvelope(ExpectedId(t),
                                 <<"{\"response\": ", "\"", "Error: ">> \o th[t].invoke_outcome.text \o <<"\"", "}">>)
               /\ (~th[t].invoke_outcome.exc /\ ~th[t].invoke_outcome.val.wellformed) =>
                      /\ th[t].response = JStr(<<"Error: ", "Expecting value: line 1 column 1 (char 0)">>)
                      /\ th[t].pc = "done" =>
                             th[t].out = SuccessEnvelope(ExpectedId(t),
                                 <<"{\"response\": ", "\"", "Error: ", "Expecting value: line 1 column 1 (char 0)", "\"", "}">>)
        /\ (Handling(t) /\ th[t].pc = "done" /\ th[t].calls # << >>) => IsResultEnvelope(th[t].out)

C7_Witness ==
    \E t \in Threads :
        /\ Submitted(t) /\ th[t].pc = "done" /\ th[t].invoke_outcome.exc
        /\ th[t].out.result.content[1].text =
               <<"{\"response\": ", "\"", "Error: ", "ThrottlingException", "\"", "}">>

\* C8 as stated: when get_bedrock_client returns no client, call_bedrock returns the
\* literal "client not available" and makes no submission.
C8_ClientNotAvailableLiteral ==
    \A t \in Threads :
        (AfterCallBedrock(t) /\ th[t].client = 0) =>
            /\ th[t].response = JStr(<<"client not available">>)
            /\ th[t].invoke_outcome = NoOutcome

\* C8 as amended: when get_bedrock_client returns no client, call_bedrock returns the
\* literal "Bedrock client not available" and makes no submission.
C8_BedrockClientNotAvailable ==
    \A t \in Threads :
        (AfterCallBedrock(t) /\ th[t].client = 0) =>
            /\ th[t].response = JStr(<<"Bedrock client not available">>)
            /\ th[t].invoke_outcome = NoOutcome
            /\ "invoke" \notin {th[t].calls[i] : i \in DOMAIN th[t].calls}

C8_Witness ==
    \E t \in Threads :
        /\ AfterCallBedrock(t) /\ th[t].client = 0 /\ th[t].pc = "done"
        /\ th[t].calls = <<"connect", "query", "create_client">>
        /\ th[t].out.result.content[1].text =
               <<"{\"response\": ", "\"", "Bedrock client not available", "\"", "}">>

\* C9: when the inference service answers with a decodable body whose content array
\* is empty, call_bedrock returns the empty string (no error string); when the array
\* is not empty it returns the text of its first block.
C9_EmptyContentGivesEmptyString ==
    \A t \in Threads :
        (/\ Submitted(t)
         /\ ~th[t].invoke_outcome.exc
         /\ th[t].invoke_outcome.val.wellformed
         /\ th[t].invoke_outcome.val.value.kind = "object"
         /\ "content" \in DOMAIN th[t].invoke_outcome.val.value.obj
         /\ th[t].invoke_outcome.val.value.obj["content"].kind = "array") =>
            LET content == th[t].invoke_outcome.val.value.obj["content"].arr
            IN  /\ content = << >> => th[t].response = JStr(<< >>)
                /\ (/\ content # << >>
                    /\ content[1].kind = "object"
                    /\ "text" \in DOMAIN content[1].obj) => th[t].response = content[1].obj["text"]

\* C10 as stated: every required argument that is missing from params.arguments
\* counts as the empty string in the user message sent to the inference adapter:
\* message for bedrock_chat, content and task for bedrock_analyze.
C10_MissingArgumentsAreEmpty ==
    \A t \in Threads :
        MessageSent(t) =>
            /\ ChatCall(t) => th[t].msg = JStr(GivenArgOr(t, "message", << >>))
            /\ AnalyzeCall(t) =>
                   th[t].msg = JStr(GivenArgOr(t, "task", << >>) \o <<"\n\nContent:\n">>
                                        \o GivenArgOr(t, "content", << >>))

\* C10 as amended: in the user message sent to the inference adapter a missing
\* message (bedrock_chat) and a missing content (bedrock_analyze) count as the empty
\* string, and a missing task (bedrock_analyze) counts as "Analyze this".
C10_MissingTaskIsAnalyzeThis ==
    \A t \in Threads :
        MessageSent(t) =>
            /\ ChatCall(t) => th[t].msg = JStr(GivenArgOr(t, "message", << >>))
            /\ AnalyzeCall(t) =>
                   th[t].msg = JStr(GivenArgOr(t, "task", <<"Analyze this">>) \o <<"\n\nContent:\n">>
                                        \o GivenArgOr(t, "content", << >>))

C10_Witness ==
    \E t \in Threads :
        /\ MessageSent(t) /\ AnalyzeCall(t) /\ Submitted(t)
        /\ GivenArgs(t) = EmptyObj /\ "arguments" \in DOMAIN GivenParams(t).obj
        /\ th[t].msg = JStr(<<"Analyze this", "\n\nContent:\n">>)

\* worker t's request has made the collaborator call op
Called(t, op) == op \in {th[t].calls[i] : i \in DOMAIN th[t].calls}

\* query_hive_mind has returned to worker t
RetrievalDone(t) ==
    /\ Handling(t) /\ th[t].tool # JNull
    /\ th[t].pc \in {"assemble", "raised", "br_check", "br_create", "br_return", "br_returned",
                     "invoke", "respond", "done"}

\* a registered tool is called without every field its descriptor requires
MissingRequired(t) ==
    /\ ChatCall(t) \/ AnalyzeCall(t)
    /\ \/ GivenArgs(t).kind # "object"
       \/ ~((IF ChatCall(t) THEN {"message"} ELSE {"content", "task"}) \subseteq DOMAIN GivenArgs(t).obj)

\* C11 as stated: a tool invocation whose arguments lack a required field of its
\* descriptor is rejected before any external call: it makes no data-store read and
\* no inference call.
C11_RejectedBeforeExternalCalls ==
    \A t \in Threads :
        MissingRequired(t) => (~Called(t, "query") /\ ~Called(t, "invoke"))

\* C11 as amended: a tool invocation whose arguments lack a required field is not
\* rejected. It never gets an error envelope; its data-store query is issued whenever
\* it obtained a connection, and when its arguments are a mapping it does not raise
\* and its inference call is made whenever it obtained a client.
C11_NotRejected ==
    \A t \in Threads :
        MissingRequired(t) =>
            /\ th[t].pc = "done" => IsResultEnvelope(th[t].out)
            /\ (RetrievalDone(t) /\ th[t].conn # 0) => Called(t, "query")
            /\ GivenArgs(t).kind = "object" =>
                   /\ th[t].pc # "raised"
                   /\ (AfterCallBedrock(t) /\ th[t].client # 0) => Called(t, "invoke")

C11_Witness ==
    \E t \in Threads :
        /\ MissingRequired(t) /\ AnalyzeCall(t) /\ th[t].pc = "done"
        /\ GivenArgs(t) = JObj([content |-> JStr(<<"doc">>)])
        /\ th[t].calls = <<"connect", "query", "create_client", "invoke">>
        /\ IsResultEnvelope(th[t].out)

\* a completion none of whose characters json.dumps has to escape
PlainText(s) == \A i \in DOMAIN s : s[i] \notin {"\n", "\n\nContent:\n", "\""}

\* the inference service answered worker t with one text block repeating the user message
Echoed(t) ==
    /\ Submitted(t) /\ ~th[t].invoke_outcome.exc
    /\ th[t].invoke_outcome.val = [wellformed |-> TRUE, value |-> Blocks(<<th[t].msg>>)]

\* C12: the user message handed to the inference adapter is arguments.message for
\* bedrock_chat and task + "\n\nContent:\n" + content for bedrock_analyze; the success
\* envelope holds exactly one text block, whose text is the serialized {response:
\* <completion>}; so when the inference service echoes its user message, a
\* bedrock_chat call with message m is answered with {"response": "m"}.
C12_MessageAndPayload ==
    \A t \in Threads :
        /\ MessageSent(t) =>
               /\ (ChatCall(t) /\ "message" \in DOMAIN GivenArgs(t).obj) =>
                      th[t].msg = GivenArgs(t).obj["message"]
               /\ (AnalyzeCall(t) /\ {"task", "content"} \subseteq DOMAIN GivenArgs(t).obj) =>
                      th[t].msg = JStr(GivenArgs(t).obj["task"].str \o <<"\n\nContent:\n">>
                                           \o GivenArgs(t).obj["content"].str)
        /\ (AfterCallBedrock(t) /\ th[t].pc = "done") =>
               /\ IsResultEnvelope(th[t].out)
               /\ th[t].out.jsonrpc = "2.0" /\ th[t].out.id = ExpectedId(t)
               /\ DOMAIN th[t].out.result = {"content"}
               /\ Len(th[t].out.result.content) = 1
               /\ DOMAIN th[t].out.result.content[1] = {"type", "text"}
               /\ th[t].out.result.content[1].type = "text"
               /\ LET text == th[t].out.result.content[1].text
                  IN  /\ text[1] = "{\"response\": " /\ text[Len(text)] = "}"
                      /\ (th[t].response.kind = "string" /\ PlainText(th[t].response.str)) =>
                             text = <<"{\"response\": ", "\"">> \o th[t].response.str \o <<"\"", "}">>
               /\ (Echoed(t) /\ ChatCall(t) /\ "message" \in DOMAIN GivenArgs(t).obj) =>
                      th[t].out = SuccessEnvelope(ExpectedId(t),
                          <<"{\"response\": ", "\"">> \o GivenArgs(t).obj["message"].str \o <<"\"", "}">>)

C12_Witness ==
    \E t \in Threads :
        /\ ChatCall(t) /\ Echoed(t) /\ th[t].pc = "done"
        /\ th[t].out = [jsonrpc |-> "2.0", id |-> JNum(7),
                        result |-> [content |-> << [type |-> "text",
                                                    text |-> <<"{\"response\": ", "\"", "hello", "\"", "}">>] >>]]

\* get_snowflake_connection, resp. get_bedrock_client, has returned to worker t
SfAccessDone(t) ==
    /\ th[t].route = "/" \/ th[t].tool # JNull
    /\ th[t].pc \notin {"idle", "start", "sf_check", "sf_connect", "sf_return"}

BrAccessDone(t) ==
    th[t].tool # JNull /\ th[t].pc \in {"br_returned", "invoke", "respond", "done"}

\* this step is worker t making the collaborator call op
Appended(t, op) ==
    /\ Len(th'[t].calls) = Len(th[t].calls) + 1
    /\ th'[t].calls[Len(th'[t].calls)] = op

\* C13: with requests served one after the other, for each of the two handle slots:
\* a failed creation leaves the slot unset, and every access that finds it unset has
\* attempted creation (nothing remembers a failure); once a creation succeeded the
\* slot keeps that handle, accesses return it and no access creates another, so at
\* most one handle per slot is ever created.
C13_LazySingletons ==
    /\ [](/\ created.sf <= 1 /\ created.br <= 1
          /\ \A t \in Threads :
                 /\ (SfAccessDone(t) /\ _snowflake_conn = 0) => (Called(t, "connect") /\ th[t].conn = 0)
                 /\ (SfAccessDone(t) /\ _snowflake_conn # 0) => th[t].conn = _snowflake_conn
                 /\ (BrAccessDone(t) /\ _bedrock_client = 0) => (Called(t, "create_client") /\ th[t].client = 0)
                 /\ (BrAccessDone(t) /\ _bedrock_client # 0) => th[t].client = _bedrock_client)
    /\ [][/\ \A t \in Threads :
                 /\ (Appended(t, "connect") /\ created'.sf = created.sf) => _snowflake_conn' = 0
                 /\ (Appended(t, "create_client") /\ created'.br = created.br) => _bedrock_client' = 0
          /\ _snowflake_conn # 0 =>
                 /\ _snowflake_conn' = _snowflake_conn /\ created'.sf = created.sf
                 /\ \A t \in Threads : ~Appended(t, "connect")
          /\ _bedrock_client # 0 =>
                 /\ _bedrock_client' = _bedrock_client /\ created'.br = created.br
                 /\ \A t \in Threads : ~Appended(t, "create_client")]_vars

\* a request that attempted the connection and failed, after an earlier request had
\* already run (it created the client) and so had failed to connect as well
C13_Witness ==
    \E t \in Threads :
        /\ th[t].tool # JNull /\ th[t].pc = "done"
        /\ th[t].calls = <<"connect", "invoke">>
        /\ th[t].conn = 0 /\ th[t].client = 1
        /\ created = [sf |-> 0, br |-> 1]

\* C14: with two requests running at once and a slot unset, both may pass the test of
\* lines 53/65 before either assigns, so that a second handle is created for the slot
\* and the later assignment replaces the earlier one (C14_Witness is such a run). No
\* more handles are created for a slot than there are workers, a slot is set exactly
\* when a creation for it succeeded, and every request of such a run goes on, step by
\* step, to a Response Envelope.
C14_RedundantHandlesHarmless ==
    /\ created.sf <= Cardinality(Threads) /\ created.br <= Cardinality(Threads)
    /\ (_snowflake_conn # 0) <=> (created.sf > 0)
    /\ (_bedrock_client # 0) <=> (created.br > 0)
    /\ \A t \in Threads :
           Handling(t) =>
               /\ th[t].pc # "raised"
               /\ th[t].pc # "done" => ENABLED Step(t, TRUE)
               /\ th[t].pc = "done" =>
                      /\ IsResultEnvelope(th[t].out) \/ IsErrorEnvelope(th[t].out)
                      /\ th[t].out.id = ExpectedId(t)

\* two connections and two clients were created; one worker still holds the first
\* connection while the slot holds the second; both requests got their result
C14_Witness ==
    \E t, u \in Threads :
        /\ t # u /\ created = [sf |-> 2, br |-> 2]
        /\ th[t].conn = 1 /\ th[u].conn = 2 /\ _snowflake_conn = 2
        /\ th[t].client = 1 /\ th[u].client = 2 /\ _bedrock_client = 2
        /\ Called(t, "connect") /\ Called(u, "connect")
        /\ th[t].pc = "done" /\ th[u].pc = "done"
        /\ IsResultEnvelope(th[t].out) /\ IsResultEnvelope(th[u].out)

\* worker t is inside query_hive_mind, resp. inside call_bedrock
InRetrieval(t) ==
    /\ Handling(t) /\ th[t].tool # JNull
    /\ th[t].pc \in {"sf_check", "sf_connect", "sf_return", "sf_returned", "query"}

InCallBedrock(t) ==
    /\ Handling(t) /\ th[t].tool # JNull
    /\ th[t].pc \in {"br_check", "br_create", "br_return", "br_returned", "invoke"}

\* the collaborator calls of worker t, in order, are data-store calls first and
\* inference calls after them
StoreCallsFirst(t) ==
    \A i, j \in DOMAIN th[t].calls :
        (th[t].calls[i] \in {"create_client", "invoke"} /\ th[t].calls[j] \in {"connect", "query"})
            => j < i

\* C15: in every call of a registered tool, query_hive_mind has run and returned before
\* call_bedrock is entered: by then the connection was asked for (created when the slot
\* was unset) and, when there is one, the query was made; no inference-side call
\* happens during retrieval, no data-store call happens after it, and this holds as
\* well when no inference client is available.
C15_RetrievalBeforeInference ==
    /\ [](\A t \in Threads :
              /\ InRetrieval(t) =>
                     ~Called(t, "create_client") /\ ~Called(t, "invoke")
              /\ MessageSent(t) =>
                     /\ Called(t, "connect") \/ Called(t, "query")
                     /\ th[t].conn # 0 => Called(t, "query") /\ th[t].query_outcome # NoOutcome
                     /\ th[t].conn = 0 => Called(t, "connect") /\ th[t].hive = << >>
                     /\ StoreCallsFirst(t)
              /\ (AfterCallBedrock(t) /\ th[t].client = 0) =>
                     th[t].response = ClientUnavailable /\ RetrievalDone(t))
    /\ [][\A t \in Threads :
              /\ (InCallBedrock(t) \/ AfterCallBedrock(t)) =>
                     ~Appended(t, "connect") /\ ~Appended(t, "query")
              /\ InCallBedrock(t) =>
                     th'[t].hive = th[t].hive /\ th'[t].system = th[t].system]_vars

\* a tool call on a cached connection with no inference client: the query was made,
\* then the client creation was tried, and the reply is the unavailable text
C15_Witness ==
    \E t \in Threads :
        /\ AfterCallBedrock(t) /\ th[t].pc = "done"
        /\ th[t].conn # 0 /\ th[t].client = 0
        /\ th[t].calls = <<"query", "create_client">>
        /\ th[t].query_outcome # NoOutcome /\ ~th[t].query_outcome.exc
        /\ th[t].hive # << >>

\* how many times worker t's request has made the collaborator call op
Attempts(t, op) == Cardinality({i \in DOMAIN th[t].calls : th[t].calls[i] = op})

ExternalOperations == {"connect", "query", "create_client", "invoke"}

\* C16: within one request each external operation (connect, query, client creation,
\* submission) is attempted at most once, and a failure is turned once into the degraded
\* value: a failed connect or a failed query gives the empty context with no second
\* try, a failed client creation gives the unavailable text with no submission, a
\* failed submission gives the "Error: ..." text; that value is what the request
\* returns in its success envelope.
C16_NoRetries ==
    \A t \in Threads :
        /\ \A op \in ExternalOperations : Attempts(t, op) <= 1
        /\ (RetrievalDone(t) /\ Called(t, "connect") /\ th[t].conn = 0) =>
               th[t].hive = << >> /\ ~Called(t, "query")
        /\ (RetrievalDone(t) /\ th[t].query_outcome # NoOutcome /\ th[t].query_outcome.exc) =>
               th[t].hive = << >> /\ Attempts(t, "query") = 1
        /\ (AfterCallBedrock(t) /\ Called(t, "create_client") /\ th[t].client = 0) =>
               th[t].response = ClientUnavailable /\ ~Called(t, "invoke")
        /\ (AfterCallBedrock(t) /\ th[t].invoke_outcome # NoOutcome /\ th[t].invoke_outcome.exc) =>
               /\ th[t].response = JStr(<<"Error: ">> \o th[t].invoke_outcome.text)
               /\ Attempts(t, "invoke") = 1
        /\ (AfterCallBedrock(t) /\ th[t].pc = "done") =>
               th[t].out = SuccessEnvelope(ExpectedId(t), Payload(th[t].response))

\* a request whose query and whose submission both failed, each tried once
C16_Witness ==
    \E t \in Threads :
        /\ AfterCallBedrock(t) /\ th[t].pc = "done"
        /\ th[t].calls = <<"connect", "query", "create_client", "invoke">>
        /\ th[t].query_outcome # NoOutcome /\ th[t].query_outcome.exc
        /\ th[t].invoke_outcome # NoOutcome /\ th[t].invoke_outcome.exc
        /\ th[t].hive = << >>
        /\ th[t].response = JStr(<<"Error: ", "ThrottlingException">>)

\* the text '<source> (<category>): <summary>' of each row, the rows one per line
RECURSIVE Lines(_)
Lines(rows) ==
    IF rows = << >> THEN << >>
    ELSE LET n == Len(rows)
             last == rows[n]
             line == last[1] \o <<" (">> \o last[2] \o <<"): ">> \o last[3]
         IN  IF n = 1 THEN line ELSE Lines(SubSeq(rows, 1, n - 1)) \o <<"\n">> \o line

\* the rows that worker t's own query returned: none without a query or when it failed
OwnRows(t) ==
    IF th[t].query_outcome = NoOutcome \/ th[t].query_outcome.exc THEN << >>
    ELSE th[t].query_outcome.val

SubmittedSystemIsOwn(t) ==
    th[t].system = SOVEREIGN_MIND_PROMPT \o <<"\n\nHive Mind Context:\n">> \o Lines(OwnRows(t))

\* C17 as stated: every registered tool call issues its own data-store query, and the
\* system prompt it submits holds exactly the rows that query returned.
C17_EveryCallQueries ==
    \A t \in Threads :
        MessageSent(t) =>
            /\ Called(t, "query") /\ th[t].query_outcome # NoOutcome
            /\ SubmittedSystemIsOwn(t)

\* C17, amended: context and system prompt are never carried from one request to
\* another. Every registered tool call that obtains a connection issues its own query,
\* once; one that obtains none issues no query. The system prompt it submits is the
\* static prompt, the context header and exactly the rows its own query returned,
\* nothing when it made no query or the query failed, whatever the requests before it
\* or beside it retrieved.
C17_ContextIsOwn ==
    \A t \in Threads :
        /\ MessageSent(t) =>
               /\ th[t].conn # 0 => Attempts(t, "query") = 1 /\ th[t].query_outcome # NoOutcome
               /\ th[t].conn = 0 => ~Called(t, "query") /\ th[t].query_outcome = NoOutcome
               /\ SubmittedSystemIsOwn(t)
        /\ th[t].pc \in {"idle", "start"} =>
               th[t].hive = << >> /\ th[t].system = << >> /\ th[t].query_outcome = NoOutcome

\* two requests side by side, each past its retrieval with a different row, and a
\* different system prompt accordingly
C17_Witness ==
    \E t, u \in Threads :
        /\ t # u /\ MessageSent(t) /\ MessageSent(u)
        /\ Called(t, "query") /\ Called(u, "query")
        /\ OwnRows(t) # << >> /\ OwnRows(u) # << >> /\ OwnRows(t) # OwnRows(u)
        /\ th[t].system # th[u].system
        /\ SubmittedSystemIsOwn(t) /\ SubmittedSystemIsOwn(u)

\* worker t's query succeeded and query_hive_mind has returned its text
QuerySucceeded(t) ==
    RetrievalDone(t) /\ th[t].query_outcome # NoOutcome /\ ~th[t].query_outcome.exc

NewlinesIn(text) == Cardinality({i \in DOMAIN text : text[i] = "\n"})

\* C18: for a successful query, query_hive_mind(limit) returns the rows in the order
\* the data store returned them, each as '<source> (<category>): <summary>', joined by
\* single newlines with no trailing newline; zero rows give the empty string; the block
\* holds at most `limit` records, 3 for every dispatcher call.
C18_RowsRendered ==
    \A t \in Threads :
        QuerySucceeded(t) =>
            LET rows == th[t].query_outcome.val
                hive == th[t].hive
            IN  /\ hive = Lines(rows)
                /\ Len(rows) <= 3
                /\ rows = << >> <=> hive = << >>
                /\ rows # << >> =>
                       /\ NewlinesIn(hive) = Len(rows) - 1
                       /\ hive[Len(hive)] # "\n" /\ hive[1] # "\n"
                       /\ SubSeq(hive, 1, 5) =
                              <<rows[1][1][1], " (", rows[1][2][1], "): ", rows[1][3][1]>>
                       /\ SubSeq(hive, Len(hive) - 4, Len(hive)) =
                              <<rows[Len(rows)][1][1], " (", rows[Len(rows)][2][1], "): ",
                                rows[Len(rows)][3][1]>>

\* three rows, the newest first, rendered in that order
C18_Witness ==
    \E t \in Threads :
        /\ QuerySucceeded(t)
        /\ th[t].query_outcome.val =
               << <<<<"GROK">>, <<"NOTE">>, <<"Deployed v2">>>>,
                  <<<<"CLAUDE">>, <<"DECISION">>, <<"Approved the budget">>>>,
                  <<<<"GROK">>, <<"NOTE">>, <<"Deployed v2">>>> >>
        /\ th[t].hive = <<"GROK", " (", "NOTE", "): ", "Deployed v2", "\n",
                           "CLAUDE", " (", "DECISION", "): ", "Approved the budget", "\n",
                           "GROK", " (", "NOTE", "): ", "Deployed v2">>

\* a successful query with no rows gives the empty string
C18_WitnessEmpty ==
    \E t \in Threads : QuerySucceeded(t) /\ th[t].query_outcome.val = << >> /\ th[t].hive = << >>

\* worker t's query was made on a connection cached by an earlier request, and raised
QueryFailedOnCached(t) ==
    /\ RetrievalDone(t) /\ ~Called(t, "connect")
    /\ th[t].query_outcome # NoOutcome /\ th[t].query_outcome.exc

\* C19: when the query fails on an already cached connection, query_hive_mind returns
\* the empty string and leaves the connection slot as it is: the same handle serves
\* every later request and no reconnection is tried, so that tool calls on a broken
\* cached connection get empty context, and each of them still returns a success
\* envelope.
C19_BrokenConnectionKept ==
    /\ [](\A t \in Threads :
              QueryFailedOnCached(t) =>
                  /\ th[t].hive = << >>
                  /\ th[t].conn # 0 /\ _snowflake_conn = th[t].conn
                  /\ th[t].pc # "raised"
                  /\ th[t].pc = "done" => IsResultEnvelope(th[t].out))
    /\ [][\A t \in Threads :
              /\ (th[t].pc = "query" /\ th'[t] # th[t]) => _snowflake_conn' = _snowflake_conn
              /\ _snowflake_conn # 0 =>
                     /\ _snowflake_conn' = _snowflake_conn
                     /\ ~Appended(t, "connect")
                     /\ th'[t].pc = "sf_returned" /\ th[t].pc # "sf_returned"
                            => th'[t].conn = _snowflake_conn]_vars

\* this step is taken by worker t while it serves the given route
StepOn(t, route) ==
    th'[t] # th[t] /\ (th[t].route = route \/ th'[t].route = route)

IndexDone(t) == th[t].route = "/" /\ th[t].pc = "done"

\* C20: GET / acquires the data-store connection: when the slot is unset it tries to
\* create one, and a success fills the slot; it reports hive_mind_connected = true
\* exactly when the slot is set after that. Neither GET / nor GET /health touches the
\* inference client slot, and GET /health leaves both slots as they are.
C20_IndexAcquiresConnection ==
    /\ [](\A t \in Threads :
              /\ IndexDone(t) =>
                     /\ th[t].out.hive_mind_connected = (_snowflake_conn # 0)
                     /\ th[t].calls \in {<< >>, <<"connect">>}
                     /\ ~th[t].out.hive_mind_connected => th[t].calls = <<"connect">>
                     /\ th[t].calls = << >> => th[t].out.hive_mind_connected
                     /\ {"status", "model", "hive_mind_connected", "region"} \subseteq DOMAIN th[t].out
              /\ th[t].route = "/health" =>
                     /\ th[t].calls = << >>
                     /\ th[t].pc \in {"start", "done"})
    /\ [][\A t \in Threads :
              /\ (StepOn(t, "/") \/ StepOn(t, "/health")) =>
                     /\ _bedrock_client' = _bedrock_client
                     /\ created'.br = created.br
              /\ StepOn(t, "/health") =>
                     UNCHANGED <<_snowflake_conn, _bedrock_client, created>>
              /\ (StepOn(t, "/") /\ th[t].pc = "sf_check") =>
                     th'[t].pc = (IF _snowflake_conn = 0 THEN "sf_connect" ELSE "sf_return")
              /\ (StepOn(t, "/") /\ Appended(t, "connect")) =>
                     /\ _snowflake_conn = 0
                     /\ created'.sf # created.sf => _snowflake_conn' # 0
              /\ (StepOn(t, "/") /\ ~Appended(t, "connect")) =>
                     _snowflake_conn' = _snowflake_conn]_vars

\* GET / found the slot unset, connected, and reports true with the slot filled
C20_Witness ==
    \E t \in Threads :
        /\ IndexDone(t) /\ th[t].calls = <<"connect">>
        /\ th[t].out.hive_mind_connected /\ _snowflake_conn = 1 /\ _bedrock_client = 0
        /\ created = [sf |-> 1, br |-> 0]

\* GET / found the slot unset, the connect failed, and it reports false
C20_WitnessFailed ==
    \E t \in Threads :
        /\ IndexDone(t) /\ th[t].calls = <<"connect">>
        /\ ~th[t].out.hive_mind_connected /\ _snowflake_conn = 0

=============================================================================
